---- MODULE Spec2Model ----
(***************************************************************************)
(* Distributed, cache-aware evaluation pipeline of                         *)
(* maskrcnn_benchmark/engine/inference.py: the per-worker inference loop   *)
(* (compute_on_dataset / compute_listener_on_dataset), the multi-worker    *)
(* accumulator (_accumulate_predictions_from_multiple_gpus) and the two    *)
(* top-level drivers (inference / listener_inference).                     *)
(*                                                                         *)
(* Every worker process runs the same driver.  The collectives             *)
(* synchronize() and all_gather() and the predicate is_main_process() live *)
(* in utils/comm.py; they are modelled from their documented contract: a   *)
(* collective completes only when every worker has entered it.             *)
(***************************************************************************)
EXTENDS Integers, Sequences, FiniteSets, TLC

\* ------------------------------------------------------------------ bounds
NumWorkers == 2
MaxId == 2
MaxSamples == 2

Workers == 0 .. (NumWorkers - 1)
Ids == 0 .. MaxId

\* ------------------------------------------------------- python primitives
\* A dict is a function whose domain is its key set.
EmptyDict == [k \in {} |-> 0]

\* dict.update(e): keys of e overwrite those of d.
DictUpdate(d, e) ==
    [k \in (DOMAIN d) \cup (DOMAIN e) |-> IF k \in DOMAIN e THEN e[k] ELSE d[k]]

\* {img_id: result for img_id, result in zip(image_ids, output)}
\* zip stops at the shorter sequence; a later pair overwrites an earlier key.
ZipDict(image_ids, output) ==
    LET n == IF Len(image_ids) < Len(output) THEN Len(image_ids) ELSE Len(output)
        last(k) == CHOOSE i \in 1..n :
                      /\ image_ids[i] = k
                      /\ \A j \in 1..n : image_ids[j] = k => j <= i
    IN  [k \in {image_ids[i] : i \in 1..n} |-> output[last(k)]]

\* for p in list: predictions.update(p), starting from d
RECURSIVE UpdateAll(_, _)
UpdateAll(d, list) ==
    IF list = <<>> THEN d
    ELSE UpdateAll(DictUpdate(d, Head(list)), Tail(list))

\* list(sorted(keys)): position j holds the key that has j - 1 smaller keys
Sorted(S) ==
    [j \in 1..Cardinality(S) |->
        CHOOSE k \in S : Cardinality({x \in S : x < k}) = j - 1]

\* sum(predictions)
RECURSIVE Sum(_)
Sum(s) == IF s = <<>> THEN 0 ELSE Head(s) + Sum(Tail(s))

\* ---------------------------------------------------------------- inputs
\* The output of the (opaque) model for sample id on worker w.  Every
\* (worker, sample) pair gets its own value, so that a prediction put at the
\* wrong place or taken from the wrong worker is visible.
ModelOutput(w, id) == 1 + id + (MaxId + 1) * w

\* The batches a data loader yields for the sample ids `ids` (in sampler
\* order) when a batch ends after each position in `cuts`.
ShardOf(ids, cuts) ==
    IF ids = <<>> THEN <<>>
    ELSE LET ends == Sorted(cuts \cup {Len(ids)})
         IN  [b \in 1..Len(ends) |->
                 SubSeq(ids, (IF b = 1 THEN 1 ELSE ends[b - 1] + 1), ends[b])]

\* What one worker's data loader can yield: a sequence of non-empty batches
\* of image_ids, the ids increasing as a sequential sampler hands them out.
WorkerShards ==
    UNION { { ShardOf(Sorted(K), C) : C \in SUBSET (1 .. (Cardinality(K) - 1)) } :
            K \in { K \in SUBSET Ids : Cardinality(K) <= MaxSamples } }

RECURSIVE ShardSize(_)
ShardSize(s) == IF s = <<>> THEN 0 ELSE Len(Head(s)) + ShardSize(Tail(s))

RECURSIVE TotalSize(_, _)
TotalSize(sh, W) ==
    IF W = {} THEN 0
    ELSE LET w == CHOOSE x \in W : TRUE
         IN  ShardSize(sh[w]) + TotalSize(sh, W \ {w})

\* The shards of all workers; different workers may hold the same sample
\* (a padded sampler repeats samples).
ShardAssignments ==
    { sh \in [Workers -> WorkerShards] : TotalSize(sh, Workers) <= MaxSamples }

\* Assignments for comparing the gather modes: no sample on two workers and
\* the same number of batches on every worker, over up to MaxEvenSamples
\* samples 0, 1, ...
MaxEvenSamples == 4
EvenWorkerShards ==
    UNION { { ShardOf(Sorted(K), C) : C \in SUBSET (1 .. (Cardinality(K) - 1)) } :
            K \in SUBSET (0..(MaxEvenSamples - 1)) }
RECURSIVE ShardKeys(_)
ShardKeys(s) ==
    IF s = <<>> THEN {}
    ELSE { Head(s)[i] : i \in 1..Len(Head(s)) } \cup ShardKeys(Tail(s))
EvenAssignments ==
    { sh \in [Workers -> EvenWorkerShards] :
        \A w, v \in Workers :
            /\ Len(sh[w]) = Len(sh[v])
            /\ w # v => ShardKeys(sh[w]) \cap ShardKeys(sh[v]) = {} }

\* Stored "predictions" value of <output_folder>/eval_results.pytorch.
CacheContents == { <<5, 7, 6>>, <<5, 7, 6, 9>> }

\* ------------------------------------------------- listener/utils.py: tensors
\* bounds of the listener utilities' inputs
MaxK == 3
MaxGraphs == 2
MaxKey == 4

\* A tensor: its shape and its elements in row-major order.
Tensor(shape, data) == [shape |-> shape, data |-> data]

RECURSIVE Prod(_)
Prod(shape) == IF shape = <<>> THEN 1 ELSE Head(shape) * Prod(Tail(shape))

\* t[i] raises IndexError unless -n <= i < n, n the first dimension.
IndexInRange(t, i) ==
    /\ t.shape # <<>>
    /\ i < t.shape[1]
    /\ i >= 0 - t.shape[1]

\* position (from 0) that index i selects: a negative index counts from the end
Wrapped(t, i) == IF i < 0 THEN i + t.shape[1] ELSE i

\* t[i], for an index in range
TIndex(t, i) ==
    LET sz == Prod(Tail(t.shape))
        j == Wrapped(t, i)
    IN  Tensor(Tail(t.shape), SubSeq(t.data, j * sz + 1, (j + 1) * sz))

\* t.repeat(n), for a tensor of at most one dimension
TRepeat(t, n) ==
    LET m == Len(t.data)
    IN  Tensor(<< m * n >>, [i \in 1..(m * n) |-> t.data[((i - 1) % m) + 1]])

\* t.t(): transposes a 2-D tensor, returns a tensor of fewer dimensions as is
TT(t) ==
    IF Len(t.shape) # 2 THEN t
    ELSE LET r == t.shape[1]
             c == t.shape[2]
         IN  Tensor(<< c, r >>,
                    [p \in 1..(r * c) |->
                        t.data[((p - 1) % r) * c + ((p - 1) \div r) + 1]])

\* a tensor of the given shape filled with v (torch.ones, -torch.ones)
TFull(shape, v) == Tensor(shape, [i \in 1..Prod(shape) |-> v])

\* t[i] = v, for an index in range
TSetIndex(t, i, v) ==
    LET sz == Prod(Tail(t.shape))
        j == Wrapped(t, i)
    IN  Tensor(t.shape,
               [p \in 1..Len(t.data) |->
                   IF p > j * sz /\ p <= (j + 1) * sz THEN v ELSE t.data[p]])

\* Result of a call: status "ok" with the returned tensors (formatters) or
\* scene graphs (collate_sgs), or the exception raised.
Pending == [status |-> "pending", tensors |-> <<>>, sgs |-> <<>>]
Raised(e) == [status |-> e, tensors |-> <<>>, sgs |-> <<>>]
ReturnTensors(ts) == [status |-> "ok", tensors |-> ts, sgs |-> <<>>]
ReturnGraphs(gs) == [status |-> "ok", tensors |-> <<>>, sgs |-> gs]

\* a variant that forgets .repeat(score_length)
format_scores_NoRepeat(scores, true_index) ==
    LET score_length == scores.shape[1]
    IN  IF ~IndexInRange(scores, true_index) THEN Raised("IndexError")
        ELSE ReturnTensors(<< TT(TIndex(scores, true_index)),
                              TT(scores),
                              TFull(<< score_length >>, 1) >>)

\* format_scores(scores, true_index, device)
format_scores(scores, true_index) ==
    LET score_length == scores.shape[1]
    IN  IF ~IndexInRange(scores, true_index) THEN Raised("IndexError")
        ELSE ReturnTensors(<< TT(TRepeat(TIndex(scores, true_index), score_length)),
                              TT(scores),
                              TFull(<< score_length >>, 1) >>)

\* format_scores_reg(scores, true_index, device)
format_scores_reg(scores, true_index) ==
    IF ~IndexInRange(scores, true_index) THEN Raised("IndexError")
    ELSE ReturnTensors(<< scores,
                          TSetIndex(TFull(scores.shape, -1), true_index, 1) >>)

\* A python list or tuple: its type and its items.
PyList(items) == [kind |-> "list", items |-> items]
PyTuple(items) == [kind |-> "tuple", items |-> items]

Min2(a, b) == IF a < b THEN a ELSE b

\* the transposition of the pair tensor; a variant that leaves it as it came
TransposePair_Columns_AsIs(pair) == pair
TransposePair_Columns(pair) == TT(pair)

\* the isinstance(sgs, list) branch: every item (node, pair, edge) wraps its
\* tensors, the branch takes element 0 of each
CollateListBranch(items) ==
    [k \in 1..Len(items) |->
        << items[k][1][1], TT(items[k][2][1]), items[k][3][1] >>]

\* a variant whose unpacking accepts a tuple of any length
CollateTupleBranch_AnyLength(items) ==
    IF Len(items) # 3 THEN ReturnGraphs(<< >>)
    ELSE LET nodes == items[1]
             pair_idx == items[2]
             edges == items[3]
             n == Min2(Len(nodes), Min2(Len(pair_idx), Len(edges)))
         IN  ReturnGraphs([k \in 1..n |->
                 << nodes[k], TransposePair_Columns(pair_idx[k]), edges[k] >>])

\* the isinstance(sgs, tuple) branch: unpacks three columns and zips them
CollateTupleBranch(items) ==
    IF Len(items) # 3 THEN Raised("ValueError")
    ELSE LET nodes == items[1]
             pair_idx == items[2]
             edges == items[3]
             n == Min2(Len(nodes), Min2(Len(pair_idx), Len(edges)))
         IN  ReturnGraphs([k \in 1..n |->
                 << nodes[k], TransposePair_Columns(pair_idx[k]), edges[k] >>])

\* collate_sgs(sgs, device)
collate_sgs(sgs) ==
    IF sgs.kind = "list" THEN ReturnGraphs(CollateListBranch(sgs.items))
    ELSE IF sgs.kind = "tuple" THEN CollateTupleBranch(sgs.items)
    ELSE ReturnGraphs(<<>>)

\* --- inputs of the utilities
ScoreVals == {2, 5, 9}
ScoreVectors == UNION { [1..k -> ScoreVals] : k \in 0..MaxK }
\* scores as a vector (K) and as the column (K, 1) a linear head returns
ScoreTensors ==
    { Tensor(<< Len(d) >>, d) : d \in ScoreVectors }
        \cup { Tensor(<< Len(d), 1 >>, d) : d \in ScoreVectors }
TrueIndexes == (0 - (MaxK + 1))..(MaxK + 1)

\* per-sample scene graphs << node features, pair index (E, 2), edge features >>
SampleGraphs ==
    { << Tensor(<< 2, 1 >>, << 1, 2 >>), Tensor(<< 1, 2 >>, << 0, 1 >>),
         Tensor(<< 1, 1 >>, << 7 >>) >>,
      << Tensor(<< 3, 1 >>, << 3, 4, 5 >>), Tensor(<< 2, 2 >>, << 0, 1, 2, 1 >>),
         Tensor(<< 2, 1 >>, << 8, 9 >>) >>,
      << Tensor(<< 1, 1 >>, << 6 >>), Tensor(<< 0, 2 >>, << >>),
         Tensor(<< 0, 1 >>, << >>) >> }
Batches == UNION { [1..n -> SampleGraphs] : n \in 0..MaxGraphs }

\* the batch as a list of singleton-wrapped (node, pair, edge) tuples
AsList(batch) ==
    PyList([k \in 1..Len(batch) |->
               << << batch[k][1] >>, << batch[k][2] >>, << batch[k][3] >> >>])
\* the batch as a columnar 3-tuple (nodes, pair_idx, edges)
AsColumns(batch) ==
    PyTuple(<< [k \in 1..Len(batch) |-> batch[k][1]],
               [k \in 1..Len(batch) |-> batch[k][2]],
               [k \in 1..Len(batch) |-> batch[k][3]] >>)
\* the batch as a tuple of its samples in place of a list
AsTuple(batch) == PyTuple(AsList(batch).items)

NoScores == Tensor(<< 0 >>, << >>)
\* key sets of a predictions dictionary handed to the contiguity test
KeySets == SUBSET (0..MaxKey)

NoCall == [fn |-> "none", scores |-> NoScores, true_index |-> 0,
           batch |-> << >>, keys |-> {}]
UtilCalls ==
    { [fn |-> "format", scores |-> s, true_index |-> i, batch |-> << >>,
       keys |-> {}] : s \in ScoreTensors, i \in TrueIndexes }
        \cup { [fn |-> "collate", scores |-> NoScores, true_index |-> 0,
                batch |-> b, keys |-> {}] : b \in Batches }
        \cup { [fn |-> "keys", scores |-> NoScores, true_index |-> 0,
                batch |-> << >>, keys |-> K] : K \in KeySets }
NoResults == [fs |-> Pending, reg |-> Pending, list |-> Pending,
              cols |-> Pending, tup |-> Pending, test |-> Pending]

\* ----------------------------------------------------------------- state
VARIABLES
    allowCache,     \* cfg.TEST.ALLOW_LOAD_FROM_CACHE
    fileExists,     \* output_folder is not None and eval_results.pytorch exists
    cacheFile,      \* the file's "predictions" value (<<>> when there is no file)
    syncGather,     \* cfg.TEST.RELATION.SYNC_GATHER
    listenerMode,   \* TRUE: listener_inference, FALSE: inference
    shard,          \* shard[w]: the batches worker w's data_loader yields
    pc,             \* pc[w]: where worker w is
    batchIdx,       \* batches worker w has finished
    results,        \* results_dict of the loop; then the driver's predictions dict
    sent,           \* the value worker w contributed to the pending all_gather
    gathered,       \* the list all_gather returned to worker w
    predictions,    \* the driver's predictions list after cache load / accumulation
    ret,            \* value the driver returned
    warned,         \* warnings logged by the accumulator
    loopCalls,      \* calls of compute_(listener_)on_dataset
    modelCalls,     \* forward passes
    accCalls,       \* calls of _accumulate_predictions_from_multiple_gpus
    gatherCalls,    \* all_gather calls entered: [loop |-> n, acc |-> n]
    evaluated,      \* arguments of the calls of evaluate(), in order
    accDict,        \* the accumulator's merged predictions dict (main process)
    ucall,          \* arguments a listener utility is called with
    ures            \* what each utility did with them

vars == << allowCache, fileExists, cacheFile, syncGather, listenerMode, shard,
           pc, batchIdx, results, sent, gathered, predictions, ret, warned,
           loopCalls, modelCalls, accCalls, gatherCalls, evaluated, accDict,
           ucall, ures >>

config == << allowCache, fileExists, cacheFile, syncGather, listenerMode, shard,
             ucall, ures >>

driver == << allowCache, fileExists, cacheFile, syncGather, listenerMode, shard,
             pc, batchIdx, results, sent, gathered, predictions, ret, warned,
             loopCalls, modelCalls, accCalls, gatherCalls, evaluated, accDict >>

\* The rank of the main process.
Main == 0

\* is_main_process()
IsMain(w) == w = Main

\* (variant: the file's existence is not looked at)
LoadFromCache_FlagOnly == allowCache

\* load_prediction_from_cache
LoadFromCache == allowCache /\ fileExists

None == [has |-> FALSE, list |-> <<>>]
Some(l) == [has |-> TRUE, list |-> l]

NoRet == [kind |-> "none", list |-> <<>>, num |-> 0, den |-> 1]
\* return -1.0
Sentinel == [kind |-> "sentinel", list |-> <<>>, num |-> -1, den |-> 1]
\* the opaque value of evaluate(predictions=l), passed through
Score(l) == [kind |-> "score", list |-> l, num |-> 0, den |-> 1]
\* (variant: the plain mean)
LossMean_Plain(l) == [kind |-> "mean", list |-> <<>>, num |-> Sum(l), den |-> Len(l)]

\* loss_sum / (len(predictions) - 3), kept as numerator and denominator
LossMean(l) == [kind |-> "mean", list |-> <<>>, num |-> Sum(l), den |-> Len(l) - 3]

InitRest ==
    /\ allowCache \in BOOLEAN
    /\ fileExists \in BOOLEAN
    /\ cacheFile \in (IF fileExists THEN CacheContents ELSE {<<>>})
    /\ syncGather \in BOOLEAN
    /\ listenerMode \in BOOLEAN
    /\ pc = [w \in Workers |-> "start"]
    /\ batchIdx = [w \in Workers |-> 0]
    /\ results = [w \in Workers |-> EmptyDict]
    /\ sent = [w \in Workers |-> EmptyDict]
    /\ gathered = [w \in Workers |-> <<>>]
    /\ predictions = [w \in Workers |-> None]
    /\ ret = [w \in Workers |-> NoRet]
    /\ warned = [w \in Workers |-> 0]
    /\ loopCalls = [w \in Workers |-> 0]
    /\ modelCalls = [w \in Workers |-> 0]
    /\ accCalls = [w \in Workers |-> 0]
    /\ gatherCalls = [w \in Workers |-> [loop |-> 0, acc |-> 0]]
    /\ evaluated = <<>>
    /\ accDict = EmptyDict
    /\ ucall = NoCall
    /\ ures = NoResults

Init ==
    /\ shard \in ShardAssignments
    /\ InitRest

InitEven ==
    /\ shard \in EvenAssignments
    /\ InitRest

\* --------------------------------------------------- top-level driver, part 1
\* inference / listener_inference up to the call of the inference loop:
\* a cache hit loads the stored predictions and skips the loop.
DriverStart(w) ==
    /\ pc[w] = "start"
    /\ IF LoadFromCache
       THEN /\ predictions' = [predictions EXCEPT ![w] = Some(cacheFile)]
            /\ pc' = [pc EXCEPT ![w] = "drv_sync"]
            /\ UNCHANGED << loopCalls, results >>
       ELSE /\ loopCalls' = [loopCalls EXCEPT ![w] = @ + 1]
            /\ results' = [results EXCEPT ![w] = EmptyDict]
            /\ pc' = [pc EXCEPT ![w] = "loop"]
            /\ UNCHANGED predictions
    /\ UNCHANGED << config, batchIdx, sent, gathered, ret, warned, modelCalls,
                    accCalls, gatherCalls, evaluated, accDict >>

\* ------------------------------------------------- per-worker inference loop
\* output of one batch: one prediction (detector) or one loss (listener) per
\* sample, in the order of image_ids.
BatchOutput(w, image_ids) ==
    [i \in 1..Len(image_ids) |-> ModelOutput(w, image_ids[i])]

\* forward passes of one batch: the detector runs once per batch, and once per
\* sample in listener mode.
ForwardPasses(image_ids) == IF listenerMode THEN Len(image_ids) ELSE 1

\* (variant: the loop never synchronizes, whatever SYNC_GATHER says)
Forward_NoSync(w) ==
    /\ pc[w] = "loop"
    /\ batchIdx[w] < Len(shard[w])
    /\ LET image_ids == shard[w][batchIdx[w] + 1]
           partial == ZipDict(image_ids, BatchOutput(w, image_ids))
       IN  /\ modelCalls' = [modelCalls EXCEPT ![w] = @ + ForwardPasses(image_ids)]
           /\ results' = [results EXCEPT ![w] = DictUpdate(@, partial)]
           /\ batchIdx' = [batchIdx EXCEPT ![w] = @ + 1]
           /\ UNCHANGED << sent, pc >>
    /\ UNCHANGED << config, gathered, predictions, ret, warned, loopCalls,
                    accCalls, gatherCalls, evaluated, accDict >>

\* One iteration of the for loop up to the gather: the forward pass, and in
\* deferred mode the local update of results_dict.
Forward(w) ==
    /\ pc[w] = "loop"
    /\ batchIdx[w] < Len(shard[w])
    /\ LET image_ids == shard[w][batchIdx[w] + 1]
           partial == ZipDict(image_ids, BatchOutput(w, image_ids))
       IN  /\ modelCalls' = [modelCalls EXCEPT ![w] = @ + ForwardPasses(image_ids)]
           /\ IF syncGather
              THEN /\ sent' = [sent EXCEPT ![w] = partial]
                   /\ pc' = [pc EXCEPT ![w] = "loop_sync"]
                   /\ UNCHANGED << results, batchIdx >>
              ELSE /\ results' = [results EXCEPT ![w] = DictUpdate(@, partial)]
                   /\ batchIdx' = [batchIdx EXCEPT ![w] = @ + 1]
                   /\ UNCHANGED << sent, pc >>
    /\ UNCHANGED << config, gathered, predictions, ret, warned, loopCalls,
                    accCalls, gatherCalls, evaluated, accDict >>

\* (variant: the driver does not synchronize() after the loop)
LoopExit_NoBarrier(w) ==
    /\ pc[w] = "loop"
    /\ batchIdx[w] = Len(shard[w])
    /\ pc' = [pc EXCEPT ![w] = "post_sync"]
    /\ UNCHANGED << config, batchIdx, results, sent, gathered, predictions, ret,
                    warned, loopCalls, modelCalls, accCalls, gatherCalls,
                    evaluated, accDict >>

\* The data loader is exhausted: return results_dict to the driver, which
\* goes on to its synchronize().
LoopExit(w) ==
    /\ pc[w] = "loop"
    /\ batchIdx[w] = Len(shard[w])
    /\ pc' = [pc EXCEPT ![w] = "drv_sync"]
    /\ UNCHANGED << config, batchIdx, results, sent, gathered, predictions, ret,
                    warned, loopCalls, modelCalls, accCalls, gatherCalls,
                    evaluated, accDict >>

\* (variant: the main process merges its own dictionary only)
LoopMergeResult_OwnOnly(w, d, list) ==
    IF IsMain(w) THEN DictUpdate(d, list[w + 1]) ELSE d

\* (variant: every worker merges)
LoopMergeResult_EveryWorker(w, d, list) == UpdateAll(d, list)

\* What the main process does with the gathered per-batch dictionaries.
LoopMergeResult(w, d, list) == IF IsMain(w) THEN UpdateAll(d, list) ELSE d

\* After the per-batch all_gather: only the main process merges.
LoopMerge(w) ==
    /\ pc[w] = "loop_merge"
    /\ results' = [results EXCEPT ![w] = LoopMergeResult(w, @, gathered[w])]
    /\ gathered' = [gathered EXCEPT ![w] = <<>>]
    /\ batchIdx' = [batchIdx EXCEPT ![w] = @ + 1]
    /\ pc' = [pc EXCEPT ![w] = "loop"]
    /\ UNCHANGED << config, sent, predictions, ret, warned, loopCalls,
                    modelCalls, accCalls, gatherCalls, evaluated, accDict >>

\* ------------------------------------------------------------- collectives
\* synchronize(): released once every worker waits in it.  A worker in the
\* loop goes on to all_gather its batch, a worker in the driver goes on.
Barrier ==
    /\ \A w \in Workers : pc[w] \in {"loop_sync", "drv_sync"}
    /\ pc' = [w \in Workers |->
                IF pc[w] = "loop_sync" THEN "loop_gather" ELSE "post_sync"]
    /\ gatherCalls' = [w \in Workers |->
                IF pc[w] = "loop_sync"
                THEN [gatherCalls[w] EXCEPT !.loop = @ + 1]
                ELSE gatherCalls[w]]
    /\ UNCHANGED << config, batchIdx, results, sent, gathered, predictions, ret,
                    warned, loopCalls, modelCalls, accCalls, evaluated, accDict >>

\* all_gather(): completes once every worker has contributed; every worker
\* receives the list of all contributions, one per rank.
AllGather ==
    /\ \A w \in Workers : pc[w] \in {"loop_gather", "acc_gather"}
    /\ gathered' = [w \in Workers |-> [i \in 1..NumWorkers |-> sent[i - 1]]]
    /\ sent' = [w \in Workers |-> EmptyDict]
    /\ pc' = [w \in Workers |->
                IF pc[w] = "loop_gather" THEN "loop_merge" ELSE "acc_merge"]
    /\ UNCHANGED << config, batchIdx, results, predictions, ret, warned,
                    loopCalls, modelCalls, accCalls, gatherCalls, evaluated,
                    accDict >>

\* ------------------------------------------------------------- accumulator
\* The driver after its synchronize(): a cache hit skips the accumulator.
SkipAccumulate(w) ==
    /\ pc[w] = "post_sync"
    /\ LoadFromCache
    /\ pc' = [pc EXCEPT ![w] = "drv_ret"]
    /\ UNCHANGED << config, batchIdx, results, sent, gathered, predictions, ret,
                    warned, loopCalls, modelCalls, accCalls, gatherCalls,
                    evaluated, accDict >>

\* Entry of _accumulate_predictions_from_multiple_gpus(predictions_per_gpu):
\* in deferred mode every worker enters the final all_gather.
AccumulateEnter(w) ==
    /\ pc[w] = "post_sync"
    /\ ~LoadFromCache
    /\ accCalls' = [accCalls EXCEPT ![w] = @ + 1]
    /\ IF ~syncGather
       THEN /\ sent' = [sent EXCEPT ![w] = results[w]]
            /\ gatherCalls' = [gatherCalls EXCEPT ![w].acc = @ + 1]
            /\ pc' = [pc EXCEPT ![w] = "acc_gather"]
       ELSE /\ pc' = [pc EXCEPT ![w] = "acc_merge"]
            /\ UNCHANGED << sent, gatherCalls >>
    /\ UNCHANGED << config, batchIdx, results, gathered, predictions, ret,
                    warned, loopCalls, modelCalls, evaluated, accDict >>

Reverse(s) == [i \in 1..Len(s) |-> s[Len(s) + 1 - i]]

\* (variant: the first dictionary holding a key wins)
MergedPredictions_FirstWins(predictions_per_gpu, all_predictions) ==
    IF syncGather THEN predictions_per_gpu
    ELSE UpdateAll(EmptyDict, Reverse(all_predictions))

\* The dict the main process turns into a list: its own dict when the
\* batches were gathered one by one, else the merge of the gathered list.
MergedPredictions(predictions_per_gpu, all_predictions) ==
    IF syncGather THEN predictions_per_gpu
    ELSE UpdateAll(EmptyDict, all_predictions)

\* (variant: keys in descending order)
SortedKeys_Descending(preds) == Reverse(Sorted(DOMAIN preds))

\* image_ids = list(sorted(predictions.keys()))
SortedKeys(preds) == Sorted(DOMAIN preds)

\* (variant: only the smallest key is looked at)
NotContiguous_FirstKey(image_ids) ==
    image_ids[1] # 0

\* (variant: the largest key itself is compared with the length)
NotContiguous_OffByOne(image_ids) ==
    Len(image_ids) # image_ids[Len(image_ids)]

\* len(image_ids) != image_ids[-1] + 1   (image_ids not empty)
NotContiguous(image_ids) ==
    Len(image_ids) # image_ids[Len(image_ids)] + 1

\* (variant: the list is indexed by key, a missing key leaves a hole)
ToList_Holes(preds, image_ids) ==
    [j \in 1..(image_ids[Len(image_ids)] + 1) |->
        IF (j - 1) \in DOMAIN preds THEN preds[j - 1] ELSE 0]

\* [predictions[i] for i in image_ids]
ToList(preds, image_ids) ==
    [j \in 1..Len(image_ids) |-> preds[image_ids[j]]]

\* The contiguity test alone, on the keys of a predictions dictionary: it
\* raises IndexError on no key, else logs the warning or stays silent.
Logged == [status |-> "warning", tensors |-> << >>, sgs |-> << >>]
Silent == [status |-> "ok", tensors |-> << >>, sgs |-> << >>]
ContiguityTest(preds) ==
    LET image_ids == SortedKeys(preds)
    IN  IF image_ids = << >> THEN Raised("IndexError")
        ELSE IF NotContiguous(image_ids) THEN Logged
        ELSE Silent

\* A worker that is not the main process returns None.
AccumulateReturnNone(w) ==
    /\ pc[w] = "acc_merge"
    /\ ~IsMain(w)
    /\ predictions' = [predictions EXCEPT ![w] = None]
    /\ gathered' = [gathered EXCEPT ![w] = <<>>]
    /\ pc' = [pc EXCEPT ![w] = "drv_ret"]
    /\ UNCHANGED << config, batchIdx, results, sent, ret, warned, loopCalls,
                    modelCalls, accCalls, gatherCalls, evaluated, accDict >>

\* (variant: an empty dictionary gives an empty list)
AccumulateMain_EmptyList(w) ==
    /\ pc[w] = "acc_merge"
    /\ IsMain(w)
    /\ LET preds == MergedPredictions(results[w], gathered[w])
           image_ids == SortedKeys(preds)
       IN  /\ accDict' = preds
           /\ IF image_ids = <<>>
              THEN /\ predictions' = [predictions EXCEPT ![w] = Some(<<>>)]
                   /\ pc' = [pc EXCEPT ![w] = "drv_ret"]
                   /\ UNCHANGED warned
              ELSE /\ warned' = [warned EXCEPT ![w] =
                                    IF NotContiguous(image_ids) THEN @ + 1 ELSE @]
                   /\ predictions' = [predictions EXCEPT ![w] =
                                         Some(ToList(preds, image_ids))]
                   /\ pc' = [pc EXCEPT ![w] = "drv_ret"]
    /\ gathered' = [gathered EXCEPT ![w] = <<>>]
    /\ UNCHANGED << config, batchIdx, results, sent, ret, loopCalls,
                    modelCalls, accCalls, gatherCalls, evaluated >>

\* The main process: merge, sort the keys, warn on a gap, build the list.
\* image_ids[-1] of an empty list raises IndexError.
AccumulateMain(w) ==
    /\ pc[w] = "acc_merge"
    /\ IsMain(w)
    /\ LET preds == MergedPredictions(results[w], gathered[w])
           image_ids == SortedKeys(preds)
       IN  /\ accDict' = preds
           /\ IF image_ids = <<>>
              THEN /\ pc' = [pc EXCEPT ![w] = "raised"]
                   /\ UNCHANGED << warned, predictions >>
              ELSE /\ warned' = [warned EXCEPT ![w] =
                                    IF NotContiguous(image_ids) THEN @ + 1 ELSE @]
                   /\ predictions' = [predictions EXCEPT ![w] =
                                         Some(ToList(preds, image_ids))]
                   /\ pc' = [pc EXCEPT ![w] = "drv_ret"]
    /\ gathered' = [gathered EXCEPT ![w] = <<>>]
    /\ UNCHANGED << config, batchIdx, results, sent, ret, loopCalls,
                    modelCalls, accCalls, gatherCalls, evaluated >>

\* --------------------------------------------------- top-level driver, part 2
\* (variant: no worker returns early)
DriverResult_NoMainCheck(w, preds) ==
    IF listenerMode THEN LossMean(preds) ELSE Score(preds)

\* The value the driver returns: the sentinel off the main process; on the
\* main process the scorer's value (inference) or the mean loss
\* (listener_inference).
DriverResult(w, preds) ==
    IF ~IsMain(w) THEN Sentinel
    ELSE IF listenerMode THEN LossMean(preds)
    ELSE Score(preds)

\* Whether this return calls evaluate().
CallsEvaluate(w) == IsMain(w) /\ ~listenerMode

DriverReturn(w) ==
    /\ pc[w] = "drv_ret"
    /\ ret' = [ret EXCEPT ![w] = DriverResult(w, predictions[w].list)]
    /\ evaluated' = IF CallsEvaluate(w)
                    THEN Append(evaluated, [by |-> w, predictions |-> predictions[w].list])
                    ELSE evaluated
    /\ pc' = [pc EXCEPT ![w] = "done"]
    /\ UNCHANGED << config, batchIdx, results, sent, gathered, predictions,
                    warned, loopCalls, modelCalls, accCalls, gatherCalls, accDict >>

\* ------------------------------------------------------------ specification
Next ==
    \/ \E w \in Workers : DriverStart(w)
    \/ \E w \in Workers : Forward(w)
    \/ \E w \in Workers : LoopExit(w)
    \/ \E w \in Workers : LoopMerge(w)
    \/ Barrier
    \/ AllGather
    \/ \E w \in Workers : SkipAccumulate(w)
    \/ \E w \in Workers : AccumulateEnter(w)
    \/ \E w \in Workers : AccumulateReturnNone(w)
    \/ \E w \in Workers : AccumulateMain(w)
    \/ \E w \in Workers : DriverReturn(w)

Spec == Init /\ [][Next]_vars

\* the same program on disjoint shards with equal batch counts
SpecEven == InitEven /\ [][Next]_vars

\* ------------------------------------------------- a failing forward pass
Failed(w) == pc[w] \in {"hung", "aborted"}

\* The forward pass of worker w's next batch does not come back: it hangs, or
\* the process aborts.  One worker fails in a run.
ForwardFails(w) ==
    /\ pc[w] = "loop"
    /\ batchIdx[w] < Len(shard[w])
    /\ \A v \in Workers : ~Failed(v)
    /\ \E outcome \in {"hung", "aborted"} : pc' = [pc EXCEPT ![w] = outcome]
    /\ UNCHANGED << config, batchIdx, results, sent, gathered, predictions, ret,
                    warned, loopCalls, modelCalls, accCalls, gatherCalls,
                    evaluated, accDict >>

NextFault ==
    \/ Next
    \/ \E w \in Workers : ForwardFails(w)

SpecFault == Init /\ [][NextFault]_vars

\* ------------------------------------------- the listener utilities, called
\* The utilities are pure: a run draws their arguments and calls them.
InitUtils ==
    /\ ucall \in UtilCalls
    /\ ures = NoResults
    /\ shard = [w \in Workers |-> << >>]
    /\ allowCache = FALSE
    /\ fileExists = FALSE
    /\ cacheFile = << >>
    /\ syncGather = FALSE
    /\ listenerMode = TRUE
    /\ pc = [w \in Workers |-> "start"]
    /\ batchIdx = [w \in Workers |-> 0]
    /\ results = [w \in Workers |-> EmptyDict]
    /\ sent = [w \in Workers |-> EmptyDict]
    /\ gathered = [w \in Workers |-> <<>>]
    /\ predictions = [w \in Workers |-> None]
    /\ ret = [w \in Workers |-> NoRet]
    /\ warned = [w \in Workers |-> 0]
    /\ loopCalls = [w \in Workers |-> 0]
    /\ modelCalls = [w \in Workers |-> 0]
    /\ accCalls = [w \in Workers |-> 0]
    /\ gatherCalls = [w \in Workers |-> [loop |-> 0, acc |-> 0]]
    /\ evaluated = <<>>
    /\ accDict = EmptyDict

CallFormatScores ==
    /\ ucall.fn = "format"
    /\ ures.fs = Pending
    /\ ures' = [ures EXCEPT !.fs = format_scores(ucall.scores, ucall.true_index)]
    /\ UNCHANGED << driver, ucall >>

CallFormatScoresReg ==
    /\ ucall.fn = "format"
    /\ ures.reg = Pending
    /\ ures' = [ures EXCEPT
                   !.reg = format_scores_reg(ucall.scores, ucall.true_index)]
    /\ UNCHANGED << driver, ucall >>

CollateList ==
    /\ ucall.fn = "collate"
    /\ ures.list = Pending
    /\ ures' = [ures EXCEPT !.list = collate_sgs(AsList(ucall.batch))]
    /\ UNCHANGED << driver, ucall >>

CollateColumns ==
    /\ ucall.fn = "collate"
    /\ ures.cols = Pending
    /\ ures' = [ures EXCEPT !.cols = collate_sgs(AsColumns(ucall.batch))]
    /\ UNCHANGED << driver, ucall >>

\* the empty tuple (): the one tuple of samples modelled
CollateEmptyTuple ==
    /\ ucall.fn = "collate"
    /\ ucall.batch = << >>
    /\ ures.tup = Pending
    /\ ures' = [ures EXCEPT !.tup = collate_sgs(AsTuple(ucall.batch))]
    /\ UNCHANGED << driver, ucall >>

\* the accumulator's contiguity test on a dictionary with the drawn keys
TestContiguity ==
    /\ ucall.fn = "keys"
    /\ ures.test = Pending
    /\ ures' = [ures EXCEPT !.test = ContiguityTest([k \in ucall.keys |-> k + 1])]
    /\ UNCHANGED << driver, ucall >>

NextUtils ==
    \/ TestContiguity
    \/ CallFormatScores
    \/ CallFormatScoresReg
    \/ CollateList
    \/ CollateColumns
    \/ CollateEmptyTuple

SpecUtils == InitUtils /\ [][NextUtils]_vars

\* ------------------------------------------------------ vocabulary of claims
SetMax(S) == CHOOSE x \in S : \A y \in S : y <= x

\* The sample ids of batch b of worker w, and of worker w's whole shard.
BatchIds(w, b) == { shard[w][b][i] : i \in 1..Len(shard[w][b]) }
ShardIds(w) == UNION { BatchIds(w, b) : b \in 1..Len(shard[w]) }
AllIds == UNION { ShardIds(w) : w \in Workers }

\* No sample is held by two workers.
Disjoint ==
    \A w, v \in Workers : w # v => ShardIds(w) \cap ShardIds(v) = {}

CacheHit == allowCache /\ fileExists

LoopReturned(w) ==
    loopCalls[w] = 1 /\ pc[w] \notin {"start", "loop", "loop_sync", "loop_gather", "loop_merge"}

\* The accumulator has returned a list to the main process / has ended on it.
MainAccumulated == accCalls[Main] = 1 /\ pc[Main] \in {"drv_ret", "done"}
MainAccEnded == accCalls[Main] = 1 /\ pc[Main] \in {"drv_ret", "done", "raised"}

\* The workers' Results Dictionaries merged by key, the highest rank holding
\* a key giving its value (the accumulator's input, whichever the mode).
WorkerDictsMerged ==
    IF syncGather THEN results[Main]
    ELSE [k \in UNION { DOMAIN results[w] : w \in Workers } |->
            results[SetMax({w \in Workers : k \in DOMAIN results[w]})][k]]

\* Position (from 1) of key k among the keys K in increasing order.
Rank(k, K) == 1 + Cardinality({x \in K : x < k})

\* --------------------------------------------------------------------- C1
\* C1: on the main process, when the merged keys of the worker dictionaries
\* are exactly {0, ..., N-1} with N >= 1, the accumulator returns a list of
\* length N whose element i is the prediction stored under key i, and logs no
\* warning (in both gather modes).
C1_AccumulatorContiguity ==
    LET D == WorkerDictsMerged
        N == Cardinality(DOMAIN D)
    IN  (MainAccEnded /\ N >= 1 /\ DOMAIN D = 0..(N - 1)) =>
            /\ pc[Main] # "raised"
            /\ predictions[Main].has
            /\ Len(predictions[Main].list) = N
            /\ \A i \in 0..(N - 1) : predictions[Main].list[i + 1] = D[i]
            /\ warned[Main] = 0

C1_Witness ==
    /\ MainAccumulated
    /\ ~syncGather
    /\ DOMAIN WorkerDictsMerged = 0..1
    /\ \A w \in Workers : Cardinality(DOMAIN results[w]) = 1

\* --------------------------------------------------------------------- C2
\* C2: on the main process, when the merged key set has a gap (largest key + 1
\* differs from the number of keys), the accumulator logs the warning, does
\* not fail, and returns a list as long as the key set whose j-th element is
\* the prediction of the j-th smallest key.
C2_GapCompaction ==
    LET D == WorkerDictsMerged
        K == DOMAIN D
    IN  (MainAccEnded /\ K # {} /\ SetMax(K) + 1 # Cardinality(K)) =>
            /\ pc[Main] # "raised"
            /\ warned[Main] = 1
            /\ predictions[Main].has
            /\ Len(predictions[Main].list) = Cardinality(K)
            /\ \A k \in K : predictions[Main].list[Rank(k, K)] = D[k]

C2_Witness ==
    /\ MainAccumulated
    /\ DOMAIN WorkerDictsMerged = {0, 2}
    /\ warned[Main] = 1

\* --------------------------------------------------------------------- C3
\* C3: a worker that is not the main process returns the sentinel from either
\* driver in every configuration, never calls the scorer, never computes the
\* listener mean, and gets None from the accumulator.
C3_NonMainSentinel ==
    \A w \in Workers \ {Main} :
        /\ pc[w] = "done" => ret[w] = Sentinel
        /\ ret[w].kind \in {"none", "sentinel"}
        /\ \A i \in 1..Len(evaluated) : evaluated[i].by # w
        /\ (accCalls[w] = 1 /\ pc[w] \in {"drv_ret", "done"}) => predictions[w] = None

C3_Witness ==
    \E w \in Workers \ {Main} :
        /\ pc[w] = "done"
        /\ accCalls[w] = 1
        /\ ShardIds(w) # {}

\* --------------------------------------------------------------------- C4
\* C4: with the cache-allow flag set and the results file present, no worker
\* runs the inference loop, calls the model, calls the accumulator or enters
\* an all_gather, and the predictions handed to scoring are the stored
\* "predictions"; otherwise the inference loop runs.
C4_CacheShortCircuit ==
    /\ CacheHit =>
          /\ \A w \in Workers :
                /\ loopCalls[w] = 0 /\ modelCalls[w] = 0 /\ accCalls[w] = 0
                /\ gatherCalls[w].loop = 0 /\ gatherCalls[w].acc = 0
                /\ pc[w] \in {"drv_ret", "done"} =>
                      predictions[w] = [has |-> TRUE, list |-> cacheFile]
          /\ (pc[Main] = "done" /\ ~listenerMode) =>
                /\ evaluated = << [by |-> Main, predictions |-> cacheFile] >>
                /\ ret[Main].kind = "score" /\ ret[Main].list = cacheFile
    /\ ~CacheHit =>
          \A w \in Workers : pc[w] # "start" => loopCalls[w] = 1

C4_Witness ==
    /\ CacheHit
    /\ ~listenerMode
    /\ \A w \in Workers : pc[w] = "done" /\ ShardIds(w) # {}

\* --------------------------------------------------------------------- C5
SetMinOf2(a, b) == IF a < b THEN a ELSE b

\* In per-batch mode the main process leaves the loop after its own last
\* batch: of worker w it has then gathered this many batches.
Reach(w) ==
    IF syncGather THEN SetMinOf2(Len(shard[w]), Len(shard[Main])) ELSE Len(shard[w])

ReachedIds ==
    UNION { UNION { BatchIds(w, b) : b \in 1..Reach(w) } : w \in Workers }

\* The prediction expected under key k, from the assignment alone: the
\* holder's output; of several holders the one of the latest batch round,
\* and in one round (or in one final gather) the one of highest rank.
ExpectedValue(k) ==
    LET H == { w \in Workers : \E b \in 1..Reach(w) : k \in BatchIds(w, b) }
        round(w) == IF syncGather
                    THEN CHOOSE b \in 1..Reach(w) : k \in BatchIds(w, b)
                    ELSE 0
        last == SetMax({ round(w) : w \in H })
    IN  ModelOutput(SetMax({ w \in H : round(w) = last }), k)

ExpectedList ==
    [j \in 1..Cardinality(ReachedIds) |->
        ExpectedValue(CHOOSE k \in ReachedIds : Rank(k, ReachedIds) = j)]

ListOrders ==
    { o \in [1..NumWorkers -> 1..NumWorkers] :
        \A i, j \in 1..NumWorkers : i # j => o[i] # o[j] }

Permuted(list, o) == [i \in 1..Len(list) |-> list[o[i]]]

AccumulatedList(own, list) ==
    LET preds == MergedPredictions(own, list)
    IN  IF DOMAIN preds = {} THEN <<>> ELSE ToList(preds, SortedKeys(preds))

\* C5: the list the main process ends with is a function of the assignment of
\* samples to workers and batches alone (the same in every interleaving), its
\* order that of the sample ids; and when every sample is assigned to one
\* worker, every order of the dictionaries in a gathered list gives the same
\* merge.
C5_OrderIndependence ==
    /\ MainAccumulated => predictions[Main].list = ExpectedList
    /\ (Disjoint /\ pc[Main] = "acc_merge") =>
          \A o \in ListOrders :
             AccumulatedList(results[Main], Permuted(gathered[Main], o))
                = AccumulatedList(results[Main], gathered[Main])
    /\ (Disjoint /\ pc[Main] = "loop_merge") =>
          \A o \in ListOrders :
             LoopMergeResult(Main, results[Main], Permuted(gathered[Main], o))
                = LoopMergeResult(Main, results[Main], gathered[Main])

\* the main process holds a larger id than another worker, each one sample
C5_Witness ==
    /\ MainAccumulated
    /\ Disjoint
    /\ \E w \in Workers \ {Main} :
          \E k \in ShardIds(Main) : \E l \in ShardIds(w) : l < k
    /\ Len(predictions[Main].list) = 2

\* --------------------------------------------------------------------- C6
\* C6 as claimed: when the inference loop has returned on a worker (main or
\* not, either mode) its dictionary has a key for every sample of its shard.
C6_EveryWorkerCoversShard ==
    \A w \in Workers : LoopReturned(w) => ShardIds(w) \subseteq DOMAIN results[w]

\* C6 amended: that holds on the main process in either mode and on every
\* worker in deferred mode; in per-batch-synchronized mode a worker that is
\* not the main process returns an empty dictionary.
C6_CoversShardWhereMerged ==
    \A w \in Workers : LoopReturned(w) =>
        /\ (w = Main \/ ~syncGather) => ShardIds(w) \subseteq DOMAIN results[w]
        /\ (w # Main /\ syncGather) => DOMAIN results[w] = {}

C6_Witness ==
    /\ syncGather
    /\ \A w \in Workers : LoopReturned(w) /\ ShardIds(w) # {}

\* --------------------------------------------------------------------- C7
\* C7: in per-batch-synchronized mode only the main process merges, so when
\* its loop ends its dictionary is the union of all batches of all workers,
\* and the accumulator uses that dictionary as is, without an all_gather.
C7_SyncLoopMergesAll ==
    syncGather =>
        /\ \A w \in Workers \ {Main} : DOMAIN results[w] = {}
        /\ \A w \in Workers : gatherCalls[w].acc = 0
        /\ MainAccEnded => accDict = results[Main]
        /\ LoopReturned(Main) =>
              /\ DOMAIN results[Main] = AllIds
              /\ \A k \in AllIds :
                    \E w \in Workers : k \in ShardIds(w) /\ results[Main][k] = ModelOutput(w, k)

\* --------------------------------------------------------------------- C8
\* C8: in deferred mode no all_gather happens in the loop; the accumulator
\* performs exactly one, entered by every worker, and the main process merges
\* the gathered list in list order: of several dictionaries holding a key the
\* last one (highest rank) gives the value.
C8_DeferredSingleGather ==
    (~syncGather) =>
        /\ \A w \in Workers :
              /\ gatherCalls[w].loop = 0
              /\ gatherCalls[w].acc = accCalls[w]
              /\ accCalls[w] <= 1
              /\ pc[w] = "acc_merge" =>
                    /\ \A v \in Workers : gatherCalls[v].acc = 1
                    /\ gathered[w] = [i \in 1..NumWorkers |-> results[i - 1]]
        /\ MainAccEnded =>
              /\ \A v \in Workers : gatherCalls[v].acc = 1
              /\ DOMAIN accDict = UNION { DOMAIN results[w] : w \in Workers }
              /\ \A k \in DOMAIN accDict :
                    accDict[k] = results[SetMax({w \in Workers : k \in DOMAIN results[w]})][k]

\* a key held by two workers with different predictions
C8_Witness ==
    /\ ~syncGather
    /\ MainAccumulated
    /\ \E k \in Ids : \E w, v \in Workers :
          /\ w < v
          /\ k \in DOMAIN results[w] /\ k \in DOMAIN results[v]
          /\ results[w][k] # results[v][k]

\* --------------------------------------------------------------------- C9
\* The number of images is not a multiple of the number of workers and the
\* shards differ in their number of samples or of batches.
Uneven ==
    /\ Cardinality(AllIds) % NumWorkers # 0
    /\ \E w, v \in Workers :
          \/ ShardSize(shard[w]) # ShardSize(shard[v])
          \/ Len(shard[w]) # Len(shard[v])

\* C9: with uneven shards every worker still returns from the driver and the
\* main process still produces a Gathered Predictions list, in both modes:
\* the run cannot stop before that.
C9_GracefulDegradation ==
    (Uneven /\ ~ENABLED Next) =>
        /\ \A w \in Workers : pc[w] = "done"
        /\ predictions[Main].has

\* -------------------------------------------------------------------- C10
RECURSIVE Total(_, _)
Total(l, n) == IF n = 0 THEN 0 ELSE Total(l, n - 1) + l[n]

\* C10: in listener mode the main process returns sum(losses) / (count - 3)
\* for the prediction list it has, gathered or loaded from the cache.
C10_ListenerMean ==
    (listenerMode /\ pc[Main] = "done") =>
        /\ ret[Main].kind = "mean"
        /\ ret[Main].num = Total(predictions[Main].list, Len(predictions[Main].list))
        /\ ret[Main].den = Len(predictions[Main].list) - 3
        /\ predictions[Main].list = (IF CacheHit THEN cacheFile ELSE ExpectedList)
        /\ evaluated = <<>>

C10_Witness ==
    /\ listenerMode
    /\ pc[Main] = "done"
    /\ ~CacheHit
    /\ Len(predictions[Main].list) = 2


\* -------------------------------------------------------------------- C11
\* vocabulary of the formatter claims
ScoreLength == ucall.scores.shape[1]
InRange == ucall.true_index >= 0 /\ ucall.true_index < ScoreLength
FormatScoresCalled == ucall.fn = "format" /\ ures.fs # Pending
FormatScoresRegCalled == ucall.fn = "format" /\ ures.reg # Pending
Constant(n, v) == [i \in 1..n |-> v]

\* C11: for scores of length K and 0 <= true_index < K, format_scores returns
\* three tensors: the first is the length-K vector holding scores[true_index]
\* at every position, the second holds the scores in their order (it is the
\* input itself when the input is a vector, its transpose (1, K) when the input
\* is a column (K, 1)), the third is the length-K vector of ones.
C11_FormatScores ==
    (FormatScoresCalled /\ InRange) =>
        /\ ures.fs.status = "ok"
        /\ Len(ures.fs.tensors) = 3
        /\ ures.fs.tensors[1] =
               Tensor(<< ScoreLength >>,
                      Constant(ScoreLength, ucall.scores.data[ucall.true_index + 1]))
        /\ ures.fs.tensors[2].data = ucall.scores.data
        /\ (Len(ucall.scores.shape) = 1 => ures.fs.tensors[2] = ucall.scores)
        /\ (Len(ucall.scores.shape) = 2 =>
               ures.fs.tensors[2].shape = << 1, ScoreLength >>)
        /\ ures.fs.tensors[3] = Tensor(<< ScoreLength >>, Constant(ScoreLength, 1))

\* the scenario scores = [0.2, 0.9, 0.5] (in tenths), true_index = 1
C11_Witness ==
    /\ FormatScoresCalled
    /\ ucall.scores = Tensor(<< 3 >>, << 2, 9, 5 >>)
    /\ ucall.true_index = 1
    /\ ures.fs.tensors = << Tensor(<< 3 >>, << 9, 9, 9 >>),
                            Tensor(<< 3 >>, << 2, 9, 5 >>),
                            Tensor(<< 3 >>, << 1, 1, 1 >>) >>

\* -------------------------------------------------------------------- C12
\* C12: every true_index outside 0 <= true_index < K makes format_scores and
\* format_scores_reg raise IndexError and return nothing; inside the range
\* format_scores_reg returns a target that is +1 at true_index and -1
\* elsewhere.
C12_OutOfRangeFails ==
    /\ (FormatScoresCalled /\ ~InRange) => ures.fs = Raised("IndexError")
    /\ (FormatScoresRegCalled /\ ~InRange) => ures.reg = Raised("IndexError")
    /\ (FormatScoresRegCalled /\ InRange) =>
           /\ ures.reg.status = "ok"
           /\ ures.reg.tensors[2].data =
                  [i \in 1..ScoreLength |->
                      IF i = ucall.true_index + 1 THEN 1 ELSE -1]

\* -------------------------------------------------------------------- C13
BatchCollated ==
    ucall.fn = "collate" /\ ures.list # Pending /\ ures.cols # Pending

\* the (E, 2) pair index laid out as (2, E)
PairT(pair) ==
    LET E == pair.shape[1]
    IN  Tensor(<< 2, E >>,
               [p \in 1..(2 * E) |->
                   pair.data[((p - 1) % E) * 2 + ((p - 1) \div E) + 1]])

CollatedBatch ==
    [k \in 1..Len(ucall.batch) |->
        << ucall.batch[k][1], PairT(ucall.batch[k][2]), ucall.batch[k][3] >>]

\* C13: a batch passed as a list of singleton-wrapped (node, pair, edge)
\* tuples and the same batch passed as a columnar 3-tuple give the same
\* output: one (node, transposed pair, edge) triple per sample, in order.
C13_CollateEquivalence ==
    BatchCollated =>
        /\ ures.list = ures.cols
        /\ ures.list.status = "ok"
        /\ ures.list.sgs = CollatedBatch

C13_Witness ==
    /\ BatchCollated
    /\ Len(ucall.batch) = 2
    /\ ucall.batch[1] # ucall.batch[2]
    /\ ures.list = ures.cols
    /\ ures.cols.sgs[1][2] = Tensor(<< 2, 2 >>, << 0, 2, 1, 1 >>)

\* -------------------------------------------------------------------- C14
EmptyBatch == ucall.fn = "collate" /\ ucall.batch = << >>

\* C14 as claimed: the empty list and the empty tuple both collate to an
\* empty sequence without an error.
C14_EmptyCollates ==
    EmptyBatch =>
        /\ ures.list # Pending => ures.list = ReturnGraphs(<< >>)
        /\ ures.tup # Pending => ures.tup = ReturnGraphs(<< >>)

\* C14: the empty list and the columnar 3-tuple of empty sequences collate
\* to an empty sequence without an error; the empty tuple () raises
\* ValueError when the tuple branch unpacks it into three columns.
C14_EmptyListAndColumns ==
    EmptyBatch =>
        /\ ures.list # Pending => ures.list = ReturnGraphs(<< >>)
        /\ ures.cols # Pending => ures.cols = ReturnGraphs(<< >>)
        /\ ures.tup # Pending => ures.tup = Raised("ValueError")

C14_Witness ==
    /\ EmptyBatch
    /\ ures.list.status = "ok"
    /\ ures.cols.status = "ok"
    /\ ures.tup.status = "ValueError"

\* -------------------------------------------------------------------- C15
StartedAccumulationOrReturned(w) ==
    pc[w] \in {"acc_gather", "acc_merge", "drv_ret", "done", "raised"}
ReachedDriverBarrier(w) ==
    pc[w] \notin {"start", "loop", "loop_sync", "loop_gather", "loop_merge"}
EqualBatchCounts == \A w, v \in Workers : Len(shard[w]) = Len(shard[v])

\* C15: no worker starts accumulation or returns before every worker has
\* left its inference loop (or loaded the cache) and reached the driver's
\* barrier; evaluate() is called at most once, by the main process, and
\* after the accumulation when there is one.
C15_DriverBarrier ==
    /\ \A w, v \in Workers :
           StartedAccumulationOrReturned(w) => ReachedDriverBarrier(v)
    /\ Len(evaluated) <= 1
    /\ \A k \in 1..Len(evaluated) :
           /\ evaluated[k].by = Main
           /\ CacheHit \/ MainAccumulated

\* -------------------------------------------------------------------- C16
\* the partial dictionary worker v submits for its k-th batch
PartialOf(v, k) == ZipDict(shard[v][k], BatchOutput(v, shard[v][k]))

\* C16: in per-batch-synchronized mode a worker that has completed the
\* all_gather of its k-th batch holds the k-th partial dictionary of every
\* worker, and at every moment two workers differ by at most one in the
\* number of batches they have completed.
C16_LockStep ==
    syncGather =>
        /\ \A w, v \in Workers : batchIdx[w] - batchIdx[v] <= 1
        /\ \A w \in Workers :
               pc[w] = "loop_merge" =>
                   \A v \in Workers :
                       /\ Len(shard[v]) > batchIdx[w]
                       /\ gathered[w][v + 1] = PartialOf(v, batchIdx[w] + 1)

\* the main process has completed its first batch, a peer is still merging
C16_Witness ==
    /\ syncGather
    /\ batchIdx[Main] = 1
    /\ \E v \in Workers : batchIdx[v] = 0 /\ pc[v] = "loop_merge"

\* -------------------------------------------------------------------- C17
\* C17: once a worker's forward pass has hung or aborted, no other worker
\* returns from the driver or raises, in either gather mode; when nothing
\* can move any more every peer waits in a synchronize() or an all_gather.
C17_PeersStranded ==
    \A w \in Workers :
        Failed(w) =>
            \A v \in Workers \ {w} :
                /\ pc[v] \notin {"done", "raised"}
                /\ ret[v] = NoRet
                /\ ~(ENABLED NextFault) =>
                       pc[v] \in {"loop_sync", "loop_gather", "drv_sync"}

\* a worker has failed in its second batch while its peer waits in the driver
C17_Witness ==
    \E w \in Workers :
        /\ Failed(w)
        /\ batchIdx[w] = 1
        /\ \E v \in Workers \ {w} : pc[v] = "drv_sync" /\ loopCalls[v] = 1
        /\ ~(ENABLED NextFault)

\* -------------------------------------------------------------------- C18
\* C18: for every non-empty set of distinct non-negative keys the
\* accumulator's test (number of keys # largest key + 1) logs the warning
\* exactly when the key set differs from {0, ..., number of keys - 1}.
C18_TestIsContiguity ==
    (ucall.fn = "keys" /\ ures.test # Pending /\ ucall.keys # {}) =>
        /\ ures.test.status \in {"warning", "ok"}
        /\ ures.test.status = "warning"
               <=> ucall.keys # 0..(Cardinality(ucall.keys) - 1)

\* key 0 and another key are missing: {1, 3}
C18_Witness ==
    /\ ucall.fn = "keys"
    /\ ucall.keys = {1, 3}
    /\ ures.test.status = "warning"

\* -------------------------------------------------------------------- C20
\* C20: when the merged dictionary on the main process is empty the
\* accumulator raises IndexError at the contiguity test: it returns no list,
\* logs no warning, and the driver does not return on the main process.
C20_EmptyRaises ==
    (MainAccEnded /\ DOMAIN WorkerDictsMerged = {}) =>
        /\ pc[Main] = "raised"
        /\ ~predictions[Main].has
        /\ warned[Main] = 0
        /\ ret[Main] = NoRet

\* no worker processed any sample
C20_Witness ==
    /\ pc[Main] = "raised"
    /\ AllIds = {}
    /\ \A w \in Workers : pc[w] \in {"raised", "done"}

\* -------------------------------------------------------------------- C19
\* The list the assignment of samples to workers determines when no sample
\* is held twice: the holder's output for each sample, in sample id order.
Holder(k) == CHOOSE w \in Workers : k \in ShardIds(w)
AssignmentList ==
    [j \in 1..Cardinality(AllIds) |->
        LET k == CHOOSE x \in AllIds : Rank(x, AllIds) = j
        IN  ModelOutput(Holder(k), k)]

\* C19: with pairwise disjoint shards and equal batch counts the main
\* process ends with the same list in per-batch-synchronized and in
\* deferred mode: in either mode the run ends with an accumulated list (or,
\* with no sample at all, with the accumulator's IndexError), and the list
\* is the one the assignment determines, whatever the mode.
C19_ModesAgree ==
    (Disjoint /\ EqualBatchCounts) =>
        /\ MainAccumulated => predictions[Main].list = AssignmentList
        /\ (~CacheHit /\ ~(ENABLED Next)) =>
               IF AllIds = {} THEN pc[Main] = "raised" ELSE MainAccumulated

\* synchronized mode, two batches on every worker
C19_Witness ==
    /\ syncGather
    /\ Disjoint
    /\ EqualBatchCounts
    /\ MainAccumulated
    /\ \A w \in Workers : Len(shard[w]) = 2
    /\ predictions[Main].list = AssignmentList
    /\ Len(predictions[Main].list) = 2 * NumWorkers
====
